---- MODULE Spec2Model ----
(***************************************************************************)
(* Expense Splitter (src/day_2/app.py): the three-step wizard, the step-3  *)
(* balance computation and the greedy two-cursor matcher settle_balances.  *)
(*                                                                         *)
(* Money is held as an integer number of mills (thousandths of a rupee):   *)
(* 0.005 is 5, one hundredth is 10.  round(x, 2) is Round2, which returns  *)
(* a multiple of 10.  Dictionaries and lists are sequences; a tuple of the *)
(* code is a tuple here, so (n, amt) is <<n, amt>> and e[2] is its amount. *)
(* The cursors i and j keep the code's 0-based values, so debtors[i] of    *)
(* the code is debtors[i + 1] here.                                        *)
(*                                                                         *)
(* Water Intake Tracker (src/day_6/Water_intake_tracker.py): the CSV data  *)
(* file and the handlers that write it.  The two programs share no state;  *)
(* each specification moves the variables of one and keeps the other's.    *)
(***************************************************************************)
EXTENDS Integers, Sequences, FiniteSets, TLC

VARIABLES step,          \* st.session_state["step"]
          total_amount,  \* st.session_state["total_amount"], mills
          people_count,  \* st.session_state["people_count"]
          people,        \* st.session_state["people"]: sequence of [name, paid]
          share,         \* step 3: share, mills
          df,            \* step 3: the data frame rows [name, paid, balance]
          balances,      \* argument of settle_balances: sequence of <<name, a>>
          creditors,     \* settle_balances: list of <<name, amount>>
          debtors,       \* settle_balances: list of <<name, amount>>
          i,             \* settle_balances: debtor cursor (0-based)
          j,             \* settle_balances: creditor cursor (0-based)
          txns,          \* settle_balances: list of <<payer, receiver, amount>>
          pc,            \* position of the script run
          data_file,     \* water tracker: DATA_FILE, [exists, rows of text]
          today,         \* water tracker: date.today(), a day number
          appended,      \* history: ml appended for today since the last clear
          week_reference, \* get_week_totals: reference, a day number
          week_rows,     \* get_week_totals: rows, sequence of <<date, ml>>
          week,          \* get_week_totals: the list returned, <<date, total>>
          week_pc,       \* get_week_totals: "idle", "call" or "done"
          display_var    \* calculator: display_var, a sequence of characters

vars == <<step, total_amount, people_count, people, share, df, balances,
          creditors, debtors, i, j, txns, pc, data_file, today, appended,
          week_reference, week_rows, week, week_pc, display_var>>

splitter == <<step, total_amount, people_count, people, share, df, balances,
              creditors, debtors, i, j, txns, pc>>
water == <<data_file, today, appended>>
weekly == <<week_reference, week_rows, week, week_pc>>
calculator == <<display_var>>

\* DATA_FILE does not exist
NoFile == [exists |-> FALSE, rows |-> <<>>]
\* the water tracker has not run: no data file, on the first day
NoWaterLog == data_file = NoFile /\ today = 1 /\ appended = 0
\* get_week_totals has not been called
NoWeekCall ==
    /\ week_reference = 1
    /\ week_rows = <<>>
    /\ week = <<>>
    /\ week_pc = "idle"
\* line 78: tk.StringVar(value="0")
CalculatorStart == display_var = <<"0">>

session == <<step, total_amount, people_count, people>>
frame == <<share, df>>
matcher == <<creditors, debtors, i, j, txns>>

----------------------------------------------------------------------------
(* Bounds of the model *)

\* longest people list / balances map explored
MaxPeople == 3
\* largest "Number of people" entered in step 1
MaxCount == 3
\* cap on the number of loop iterations followed; the loop of the code ends
\* long before it (TxnBound), it only keeps a loop that fails to advance finite
MaxTxns == 7

----------------------------------------------------------------------------
(* Arithmetic *)

\* 0.005 in mills: the tolerance of lines 13, 14, 26, 30
Eps == 5
\* one hundredth in mills: the precision of round(x, 2)
Cent == 10

Min(a, b) == IF a <= b THEN a ELSE b
Max(a, b) == IF a >= b THEN a ELSE b
Abs(a) == IF a < 0 THEN -a ELSE a

\* The magnitudes m (mills, below 100) ending in 5 whose nearest double lies
\* above m/1000, so that Python's round(m/1000, 2) goes up: round(0.005, 2)
\* is 0.01 and round(0.025, 2) is 0.03, while round(0.015, 2) is 0.01.
HalfUp == {5, 25, 35, 55, 65, 85, 95}

\* round(x, 2) on a value of x mills: the nearest multiple of a hundredth.
\* An exact half is decided by the double that represents it (HalfUp, which
\* covers the halves below 0.1, the only ones the explored values produce);
\* round(-x, 2) = -round(x, 2).
Round2Down(x) ==
    LET a == Abs(x)
        v == (a \div Cent) * Cent
    IN  IF x < 0 THEN -v ELSE v

Round2(x) ==
    LET a == Abs(x)
        q == a \div Cent
        r == a % Cent
        up == r > Eps \/ (r = Eps /\ a \in HalfUp)
        v == IF up THEN (q + 1) * Cent ELSE q * Cent
    IN  IF x < 0 THEN -v ELSE v

----------------------------------------------------------------------------
(* settle_balances, lines 12-34 *)

\* line 13: if a > 0.005
IsCreditorLoose(a) == a > 0
IsCreditor(a) == a > Eps

\* line 14: if a < -0.005
IsDebtorAtTolerance(a) == a <= -Eps
IsDebtor(a) == a < -Eps

\* line 13: [(n, round(a, 2)) for n, a in balances.items() if a > 0.005]
CreditorList(b) ==
    LET sel == SelectSeq(b, LAMBDA e : IsCreditor(e[2]))
    IN  [k \in 1..Len(sel) |-> <<sel[k][1], Round2(sel[k][2])>>]

\* line 14: [(n, round(-a, 2)) for n, a in balances.items() if a < -0.005]
DebtorList(b) ==
    LET sel == SelectSeq(b, LAMBDA e : IsDebtor(e[2]))
    IN  [k \in 1..Len(sel) |-> <<sel[k][1], Round2(-sel[k][2])>>]

\* list.sort(key=lambda x: x[1], reverse=True) is stable: an element goes
\* behind every element whose key is greater or equal.
RECURSIVE InsertDesc(_, _)
InsertDesc(x, s) ==
    IF s = <<>> THEN <<x>>
    ELSE IF Head(s)[2] >= x[2] THEN <<Head(s)>> \o InsertDesc(x, Tail(s))
    ELSE <<x>> \o s

RECURSIVE InsertDescUnstable(_, _)
InsertDescUnstable(x, s) ==
    IF s = <<>> THEN <<x>>
    ELSE IF Head(s)[2] > x[2] THEN <<Head(s)>> \o InsertDescUnstable(x, Tail(s))
    ELSE <<x>> \o s

RECURSIVE SortDescFrom(_, _)
SortDescFrom(s, acc) ==
    IF s = <<>> THEN acc ELSE SortDescFrom(Tail(s), InsertDesc(Head(s), acc))

RECURSIVE SortUnstableFrom(_, _)
SortUnstableFrom(s, acc) ==
    IF s = <<>> THEN acc
    ELSE SortUnstableFrom(Tail(s), InsertDescUnstable(Head(s), acc))

\* a sort that reverses the input order among equal keys
SortDescReversedTies(s) == SortUnstableFrom(s, <<>>)

\* lines 15-16: .sort(key=lambda x: x[1], reverse=True)
SortDesc(s) == SortDescFrom(s, <<>>)

\* line 22: pay = min(damt, camt)
PayDebtor(damt, camt) == damt
PayMax(damt, camt) == Max(damt, camt)
PayHalf(damt, camt) == Max(Cent, Round2Down(Min(damt, camt) \div 2))
Pay(damt, camt) == Min(damt, camt)

\* lines 24-25: damt -= pay, camt -= pay
RemainingNone(amt, pay) == 0
Remaining(amt, pay) == amt - pay

\* lines 26 and 30: if amt <= 0.005 (the side is exhausted, its cursor advances)
ExhaustedEarly(amt) == amt <= Cent
ExhaustedNever(amt) == amt < 0
Exhausted(amt) == amt <= Eps

\* line 19: while i < len(debtors) and j < len(creditors)
LoopCond == i < Len(debtors) /\ j < Len(creditors)

\* a partition that sorts the caller's items in place
PartitionSortingInput ==
    /\ pc = "call"
    /\ balances' = SortDesc(balances)
    /\ creditors' = SortDesc(CreditorList(balances))
    /\ debtors' = SortDesc(DebtorList(balances))
    /\ txns' = <<>>
    /\ i' = 0
    /\ j' = 0
    /\ pc' = "loop"
    /\ UNCHANGED <<session, frame>>
    /\ UNCHANGED <<water, weekly, calculator>>

\* lines 13-18: partition, sort, txns = [], i = j = 0
Partition ==
    /\ pc = "call"
    /\ creditors' = SortDesc(CreditorList(balances))
    /\ debtors' = SortDesc(DebtorList(balances))
    /\ txns' = <<>>
    /\ i' = 0
    /\ j' = 0
    /\ pc' = "loop"
    /\ UNCHANGED <<session, frame, balances>>
    /\ UNCHANGED <<water, weekly, calculator>>

\* lines 19-33: one iteration of the matching loop
LoopStep ==
    /\ pc = "loop"
    /\ LoopCond
    /\ Len(txns) < MaxTxns
    /\ LET dname == debtors[i + 1][1]
           damt == debtors[i + 1][2]
           cname == creditors[j + 1][1]
           camt == creditors[j + 1][2]
           pay == Pay(damt, camt)
           damt2 == Remaining(damt, pay)
           camt2 == Remaining(camt, pay)
       IN  /\ txns' = Append(txns, <<dname, cname, Round2(pay)>>)
           /\ IF Exhausted(damt2)
              THEN i' = i + 1 /\ debtors' = debtors
              ELSE i' = i /\ debtors' = [debtors EXCEPT ![i + 1] = <<dname, Round2(damt2)>>]
           /\ IF Exhausted(camt2)
              THEN j' = j + 1 /\ creditors' = creditors
              ELSE j' = j /\ creditors' = [creditors EXCEPT ![j + 1] = <<cname, Round2(camt2)>>]
    /\ pc' = "loop"
    /\ UNCHANGED <<session, frame, balances>>
    /\ UNCHANGED <<water, weekly, calculator>>

\* line 34: the loop condition is false, return txns
Return ==
    /\ pc = "loop"
    /\ ~LoopCond
    /\ pc' = "done"
    /\ UNCHANGED <<session, frame, balances, matcher>>
    /\ UNCHANGED <<water, weekly, calculator>>

NextMatch == Partition \/ LoopStep \/ Return

----------------------------------------------------------------------------
(* settle_balances as a function of an arbitrary balances map *)

\* f"Person {k}", lines 100, 110, 116, 130
PersonName(k) ==
    <<"Person 1", "Person 2", "Person 3", "Person 4",
      "Person 5", "Person 6", "Person 7", "Person 8">>[k]

\* balances explored, in mills: hundredths, and values around the tolerance
BalVals == {-670, -340, -330, -10, -6, -5, 0, 4, 5, 6, 15, 330, 670}

\* the maps explored: distinct keys (a dict), in insertion order
BalanceMaps ==
    UNION {{[k \in 1..n |-> <<PersonName(k), f[k]>>] : f \in [1..n -> BalVals]}
           : n \in 0..MaxPeople}

InitMatch ==
    /\ step = 3
    /\ total_amount = 0
    /\ people_count = 1
    /\ people = <<>>
    /\ share = 0
    /\ df = <<>>
    /\ balances \in BalanceMaps
    /\ creditors = <<>>
    /\ debtors = <<>>
    /\ i = 0
    /\ j = 0
    /\ txns = <<>>
    /\ pc = "call"
    /\ NoWaterLog
    /\ NoWeekCall
    /\ CalculatorStart

SpecMatch == InitMatch /\ [][NextMatch]_vars

\* the loop runs to its end: the interpreter keeps executing the call
SpecMatchLive == InitMatch /\ [][NextMatch]_vars /\ WF_vars(NextMatch)

----------------------------------------------------------------------------
(* Step 3: Finalize, lines 140-187 *)

\* line 143: n = max(1, int(people_count))
CountUsed(c) == Max(1, c)

\* line 153: round(total_amount / n, 2), for n >= 1.  The quotient is
\* rounded to the nearest hundredth; it is an exact half only when n is 2 or
\* 4 (n <= 5), where the division is exact and the double is that of Round2.
ShareUnrounded(t, n) == t \div n

ShareTruncated(t, n) ==
    LET v == ((Abs(t) \div (n * Cent)) * Cent)
    IN  IF t < 0 THEN -v ELSE v

ShareOf(t, n) ==
    LET a == Abs(t)
        q == a \div (n * Cent)
        r == a % (n * Cent)
        up == 2 * r > n * Cent \/ (2 * r = n * Cent /\ (q * Cent + Eps) \in HalfUp)
        v == IF up THEN (q + 1) * Cent ELSE q * Cent
    IN  IF t < 0 THEN -v ELSE v

\* line 155: (df["paid"] - df["share"]).round(2)
BalanceOwed(paid, sh) == Round2(sh - paid)
BalanceOf(paid, sh) == Round2(paid - sh)

\* lines 151-155: one row per entry of people; line 154 writes the one share
\* into the share column of every row
FrameOf(ps, sh) ==
    [k \in 1..Len(ps) |->
        [name |-> ps[k].name, paid |-> ps[k].paid, share |-> sh,
         balance |-> BalanceOf(ps[k].paid, sh)]]

\* dict item assignment: an existing key keeps its place and takes the new
\* value, a new key goes to the end
DictPut(d, key, v) ==
    IF \E p \in 1..Len(d) : d[p][1] = key
    THEN [p \in 1..Len(d) |-> IF d[p][1] = key THEN <<key, v>> ELSE d[p]]
    ELSE Append(d, <<key, v>>)

RECURSIVE DictFrom(_, _)
DictFrom(rows, d) ==
    IF rows = <<>> THEN d
    ELSE DictFrom(Tail(rows), DictPut(d, Head(rows).name, Head(rows).balance))

\* line 186: dict(zip(df["name"], df["balance"]))
DictOfFrame(rows) == DictFrom(rows, <<>>)

\* lines 142-187 up to the call of settle_balances.  An empty people list
\* shows "No people added" (lines 146-149) and computes nothing.
StepThree(ps) ==
    IF ps = <<>>
    THEN /\ pc' = "no_people"
         /\ UNCHANGED <<frame, balances>>
    ELSE /\ share' = ShareOf(total_amount, CountUsed(people_count))
         /\ df' = FrameOf(ps, share')
         /\ balances' = DictOfFrame(df')
         /\ pc' = "call"

\* a step 3 that checks its inputs first and computes nothing on a count
\* below 1, a negative total or a negative contribution
FinalizeValidating ==
    /\ pc = "step3"
    /\ IF \/ people_count < 1
          \/ total_amount < 0
          \/ \E k \in 1..Len(people) : people[k].paid < 0
       THEN pc' = "invalid_input" /\ UNCHANGED <<frame, balances>>
       ELSE StepThree(people)
    /\ UNCHANGED <<session, matcher>>
    /\ UNCHANGED <<water, weekly, calculator>>

\* a script run that enters with step = 3
Finalize ==
    /\ pc = "step3"
    /\ StepThree(people)
    /\ UNCHANGED <<session, matcher>>
    /\ UNCHANGED <<water, weekly, calculator>>

NextCalc == Finalize \/ Partition \/ LoopStep \/ Return

\* amounts a number_input (min_value=0.0, format="%.2f") returns, in mills
TotalVals == {0, 10, 100000, 600000}
PaidVals == {0, 10, 33000, 34000, 200000, 600000}

\* a row carries its default name f"Person {k}" or a name typed again from
\* the row before it
NamesAt(k) == IF k = 1 THEN {PersonName(1)} ELSE {PersonName(k), PersonName(k - 1)}

PeopleLists ==
    UNION {{[k \in 1..n |-> [name |-> nm[k], paid |-> pd[k]]] :
                nm \in {f \in [1..n -> {PersonName(k) : k \in 1..n}] :
                            \A k \in 1..n : f[k] \in NamesAt(k)},
                pd \in [1..n -> PaidVals]}
           : n \in 0..MaxPeople}

InitCalc ==
    /\ step = 3
    /\ total_amount \in TotalVals
    /\ people_count \in 1..MaxCount
    /\ people \in PeopleLists
    /\ share = 0
    /\ df = <<>>
    /\ balances = <<>>
    /\ creditors = <<>>
    /\ debtors = <<>>
    /\ i = 0
    /\ j = 0
    /\ txns = <<>>
    /\ pc = "step3"
    /\ NoWaterLog
    /\ NoWeekCall
    /\ CalculatorStart

\* step 3 run on the session state the wizard can leave behind
SpecCalc == InitCalc /\ [][NextCalc]_vars

\* step 3 as a function of any session state, also values the input widgets
\* (min_value=0.0, min_value=1) never return
TotalRaw == TotalVals \cup {-100000}
PaidRaw == PaidVals \cup {-33000}

PeopleRaw ==
    UNION {{[k \in 1..n |-> [name |-> PersonName(k), paid |-> pd[k]]] :
                pd \in [1..n -> PaidRaw]}
           : n \in 0..MaxPeople}

InitCalcRaw ==
    /\ step = 3
    /\ total_amount \in TotalRaw
    /\ people_count \in -1..MaxCount
    /\ people \in PeopleRaw
    /\ share = 0
    /\ df = <<>>
    /\ balances = <<>>
    /\ creditors = <<>>
    /\ debtors = <<>>
    /\ i = 0
    /\ j = 0
    /\ txns = <<>>
    /\ pc = "step3"
    /\ NoWaterLog
    /\ NoWeekCall
    /\ CalculatorStart

SpecCalcRaw == InitCalcRaw /\ [][NextCalc]_vars

----------------------------------------------------------------------------
(* The wizard, lines 71-137 and 237-238.  Every interaction of the user    *)
(* reruns the script from the top; an action below is one such run.  A     *)
(* widget returns the value it is given unless the user has just changed   *)
(* it.  The "upi" field of a row is carried by the code and read by none   *)
(* of the operations below; it is left out.                                *)

\* amounts entered in the wizard, in mills
WizTotals == {0, 300000}
WizPaid == {0, 300000}

\* texts typed into a name field
NameTexts == {"", "Ann", " Ann "}

\* name.strip(), line 130, on the texts of NameTexts
Strip(text) == IF text = " Ann " THEN "Ann" ELSE text

\* lines 100, 110, 116: {"name": f"Person {k}", "paid": 0.0, "upi": ""}
NewPerson(k) == [name |-> PersonName(k), paid |-> 0]

\* line 130: name.strip() or f"Person {i+1}" (k is i + 1)
RowNameKeepEmpty(text, k) == Strip(text)
RowName(text, k) == IF Strip(text) = "" THEN PersonName(k) ELSE Strip(text)

\* lines 121-131: the rows are rebuilt from the widgets, in order
Rebuild(ps) ==
    [k \in 1..Len(ps) |-> [name |-> RowName(ps[k].name, k), paid |-> ps[k].paid]]

\* lines 99-100 and 115-116: append f"Person {cur + 1}" ... f"Person {cnt}"
RECURSIVE FillTo(_, _)
FillTo(ps, cnt) ==
    IF Len(ps) >= cnt THEN ps ELSE FillTo(Append(ps, NewPerson(Len(ps) + 1)), cnt)

\* the matcher's locals and the frame do not outlive a script run
NoRun ==
    /\ share' = 0
    /\ df' = <<>>
    /\ balances' = <<>>
    /\ creditors' = <<>>
    /\ debtors' = <<>>
    /\ i' = 0
    /\ j' = 0
    /\ txns' = <<>>

\* lines 95-101, then the step-2 block of the same run (lines 104-137)
NextAssign ==
    /\ pc = "wait"
    /\ step = 1
    /\ \E t \in WizTotals, c \in 1..MaxCount :
          /\ total_amount' = t
          /\ people_count' = c
          /\ people' = Rebuild(FillTo(people, c))
    /\ step' = 2
    /\ UNCHANGED <<frame, balances, matcher, pc>>
    /\ UNCHANGED <<water, weekly, calculator>>

\* lines 109-110, then the rows rebuilt
AddPerson ==
    /\ pc = "wait"
    /\ step = 2
    /\ Len(people) < MaxPeople
    /\ people' = Rebuild(Append(people, NewPerson(Len(people) + 1)))
    /\ UNCHANGED <<step, total_amount, people_count, frame, balances, matcher, pc>>
    /\ UNCHANGED <<water, weekly, calculator>>

\* lines 112-116, then the rows rebuilt
AutoFill ==
    /\ pc = "wait"
    /\ step = 2
    /\ people' = Rebuild(FillTo(people, people_count))
    /\ UNCHANGED <<step, total_amount, people_count, frame, balances, matcher, pc>>
    /\ UNCHANGED <<water, weekly, calculator>>

\* lines 118-119, then the rows rebuilt
BackToCost ==
    /\ pc = "wait"
    /\ step = 2
    /\ step' = 1
    /\ people' = Rebuild(people)
    /\ UNCHANGED <<total_amount, people_count, frame, balances, matcher, pc>>
    /\ UNCHANGED <<water, weekly, calculator>>

\* lines 124 and 130: a name typed into row r
EditName ==
    /\ pc = "wait"
    /\ step = 2
    /\ \E r \in 1..Len(people), text \in NameTexts :
          people' = Rebuild([people EXCEPT ![r].name = text])
    /\ UNCHANGED <<step, total_amount, people_count, frame, balances, matcher, pc>>
    /\ UNCHANGED <<water, weekly, calculator>>

\* lines 125 and 130: an amount entered into row r
EditPaid ==
    /\ pc = "wait"
    /\ step = 2
    /\ \E r \in 1..Len(people), v \in WizPaid :
          people' = Rebuild([people EXCEPT ![r].paid = v])
    /\ UNCHANGED <<step, total_amount, people_count, frame, balances, matcher, pc>>
    /\ UNCHANGED <<water, weekly, calculator>>

\* lines 127-129: row r is skipped, every other row is rebuilt at its own
\* index (enumerate runs over the list before the removal)
Remove ==
    /\ pc = "wait"
    /\ step = 2
    /\ \E r \in 1..Len(people) :
          LET rows == Rebuild(people)
          IN  people' = [k \in 1..(Len(people) - 1) |->
                            IF k < r THEN rows[k] ELSE rows[k + 1]]
    /\ UNCHANGED <<step, total_amount, people_count, frame, balances, matcher, pc>>
    /\ UNCHANGED <<water, weekly, calculator>>

\* lines 136-137, then the step-3 block of the same run up to the call of
\* settle_balances
NextFinalize ==
    /\ pc = "wait"
    /\ step = 2
    /\ people' = Rebuild(people)
    /\ step' = 3
    /\ StepThree(people')
    /\ UNCHANGED <<total_amount, people_count, matcher>>
    /\ UNCHANGED <<water, weekly, calculator>>

\* lines 148-149 and 237-238: step 3 is shown; Back reruns the script, which
\* computes the same result again and then sets step = 2
BackFromFinalize ==
    /\ pc \in {"done", "no_people"}
    /\ step = 3
    /\ step' = 2
    /\ pc' = "wait"
    /\ NoRun
    /\ UNCHANGED <<total_amount, people_count, people>>
    /\ UNCHANGED <<water, weekly, calculator>>

Next ==
    \/ NextAssign
    \/ AddPerson
    \/ AutoFill
    \/ BackToCost
    \/ EditName
    \/ EditPaid
    \/ Remove
    \/ NextFinalize
    \/ Partition
    \/ LoopStep
    \/ Return
    \/ BackFromFinalize

\* lines 71-74; total_amount and people_count are not in the session state
\* yet and are set by NextAssign before anything reads them
Init ==
    /\ step = 1
    /\ total_amount = 0
    /\ people_count = 1
    /\ people = <<>>
    /\ share = 0
    /\ df = <<>>
    /\ balances = <<>>
    /\ creditors = <<>>
    /\ debtors = <<>>
    /\ i = 0
    /\ j = 0
    /\ txns = <<>>
    /\ pc = "wait"
    /\ NoWaterLog
    /\ NoWeekCall
    /\ CalculatorStart

Spec == Init /\ [][Next]_vars

----------------------------------------------------------------------------
(* Vocabulary of the properties *)

RECURSIVE SumSeq(_)
SumSeq(s) == IF s = <<>> THEN 0 ELSE Head(s) + SumSeq(Tail(s))

\* total amount of the transactions of t paid by / received by a name
PaidBy(nm, t) == SumSeq([k \in 1..Len(t) |-> IF t[k][1] = nm THEN t[k][3] ELSE 0])
ReceivedBy(nm, t) == SumSeq([k \in 1..Len(t) |-> IF t[k][2] = nm THEN t[k][3] ELSE 0])

SumBalances(b) == SumSeq([k \in 1..Len(b) |-> b[k][2]])
SumPaid(ps) == SumSeq([k \in 1..Len(ps) |-> ps[k].paid])
SumFrame(rows) == SumSeq([k \in 1..Len(rows) |-> rows[k].balance])

\* entries with balance > 0.005 / < -0.005
NumCreditors(b) == Cardinality({k \in 1..Len(b) : b[k][2] > Eps})
NumDebtors(b) == Cardinality({k \in 1..Len(b) : b[k][2] < -Eps})

\* what is still open on entry k of the map b after the transactions t
Residual(b, k, t) ==
    IF b[k][2] < -Eps THEN -b[k][2] - PaidBy(b[k][1], t)
    ELSE IF b[k][2] > Eps THEN b[k][2] - ReceivedBy(b[k][1], t)
    ELSE 0

\* step 3 has computed the frame and the balances map
Computed == pc \in {"call", "loop", "done"}
\* settle_balances has been entered (the lists are built)
Matching == pc \in {"loop", "done"}

ValidInputs ==
    /\ total_amount >= 0
    /\ people_count >= 1
    /\ \A k \in 1..Len(people) : people[k].paid >= 0

----------------------------------------------------------------------------
(* C1 *)

\* C1 as stated: for the balances step 3 computes from valid inputs, the
\* transactions summed per debtor reproduce the debtor's absolute balance
\* within 0.005, and summed per creditor the creditor's balance within 0.005.
SettlementComplete ==
    (pc = "done" /\ ValidInputs) =>
        \A k \in 1..Len(balances) : Abs(Residual(balances, k, txns)) <= Eps

\* C1 amended: the transactions summed per debtor (creditor) never exceed
\* the balance and fall short of it by at most the absolute sum of all
\* balances; when the balances sum to zero every balance is reproduced
\* exactly.
SettlementCompleteUpToImbalance ==
    (pc = "done" /\ ValidInputs) =>
        \A k \in 1..Len(balances) :
            /\ 0 <= Residual(balances, k, txns)
            /\ Residual(balances, k, txns) <= Abs(SumBalances(balances))

\* the rounding case settled: 100.00 over 3 with 34, 33 and 33 paid gives two
\* transfers and leaves a hundredth open on the creditor
SettlementCompleteWitness ==
    /\ pc = "done"
    /\ total_amount = 100000
    /\ people_count = 3
    /\ [k \in 1..Len(people) |-> people[k].paid] = <<34000, 33000, 33000>>
    /\ Len(txns) = 2
    /\ \E k \in 1..Len(balances) : Residual(balances, k, txns) = Cent

----------------------------------------------------------------------------
(* C2 *)

\* C2 as stated: for all valid inputs the balances of step 3 sum to zero
\* within 0.005.
Conservation ==
    (Computed /\ ValidInputs) => Abs(SumFrame(df)) <= Eps

\* C2 amended: the balances sum to the contributions minus one share per
\* entry of the people list; when the contributions add up to totalCost and
\* the list has participantCount entries that is totalCost - n * share,
\* within n * 0.005 of zero, and zero when n divides totalCost in hundredths.
ConservationUpToRounding ==
    (Computed /\ ValidInputs) =>
        /\ SumFrame(df) = SumPaid(people) - Len(people) * share
        /\ (SumPaid(people) = total_amount /\ Len(people) = people_count) =>
              /\ Abs(SumFrame(df)) <= people_count * Eps
              /\ (total_amount % (people_count * Cent) = 0 => SumFrame(df) = 0)

\* contributions that add up to totalCost, one per counted participant, and
\* balances that do not sum to zero
ConservationWitness ==
    /\ Computed
    /\ ValidInputs
    /\ SumPaid(people) = total_amount
    /\ Len(people) = people_count
    /\ SumFrame(df) # 0

----------------------------------------------------------------------------
(* C3 *)

\* C3 as stated: the number of loop steps, and of transactions, is at most
\* numCreditors + numDebtors - 1 for every balances map.
TxnBoundStrict ==
    Matching => Len(txns) <= NumCreditors(balances) + NumDebtors(balances) - 1

\* C3 amended: the number of loop steps, and of transactions, is at most
\* numCreditors + numDebtors - 1 when the map has a creditor or a debtor,
\* and zero when it has neither.
TxnBound ==
    Matching =>
        Len(txns) <= Max(0, NumCreditors(balances) + NumDebtors(balances) - 1)

\* a run that uses the whole bound with three entries
TxnBoundWitness ==
    /\ pc = "done"
    /\ Len(txns) >= 2
    /\ Len(txns) = NumCreditors(balances) + NumDebtors(balances) - 1

----------------------------------------------------------------------------
(* C4 *)

\* C4: for every balances map, cancelling or not, the matching loop exits
\* and settle_balances returns.
Terminates == <>(pc = "done")

\* a call on balances that do not cancel has returned after two iterations
TerminatesWitness ==
    /\ pc = "done"
    /\ Len(txns) >= 2
    /\ SumBalances(balances) # 0

----------------------------------------------------------------------------
(* C5 *)

\* C5: at every step of the loop every transaction emitted so far has a
\* strictly positive amount that is a whole number of hundredths.
AmountsPositiveHundredths ==
    \A k \in 1..Len(txns) : txns[k][3] > 0 /\ txns[k][3] % Cent = 0

\* a balance of 0.006, just above the tolerance, has received a transfer
AmountsPositiveHundredthsWitness ==
    /\ pc = "done"
    /\ \E k \in 1..Len(balances) :
          /\ balances[k][2] = 6
          /\ ReceivedBy(balances[k][1], txns) = Cent

----------------------------------------------------------------------------
(* C6 *)

\* position of a name in a list of tuples whose first field is the name
IndexOf(s, nm) == CHOOSE p \in 1..Len(s) : s[p][1] = nm

\* the list holds the entries of b selected by Sel, each once, by descending
\* amount (the balance's magnitude rounded to hundredths), entries of equal
\* amount in the order of b
InServingOrder(list, b, Sel(_)) ==
    /\ Len(list) = Cardinality({k \in 1..Len(b) : Sel(b[k][2])})
    /\ \A p \in 1..Len(list) :
          \E k \in 1..Len(b) : Sel(b[k][2]) /\ b[k][1] = list[p][1]
    /\ \A p, q \in 1..Len(list) :
          p < q =>
            LET x == IndexOf(b, list[p][1])
                y == IndexOf(b, list[q][1])
                ax == Round2(Abs(b[x][2]))
                ay == Round2(Abs(b[y][2]))
            IN  ax > ay \/ (ax = ay /\ x < y)

\* column col of the transactions walks through the list from its first
\* entry, staying on an entry or moving to the next one
ServedInOrder(t, col, list) ==
    \A k \in 1..Len(t) :
        /\ \E p \in 1..Len(list) : list[p][1] = t[k][col]
        /\ IF k = 1
           THEN IndexOf(list, t[k][col]) = 1
           ELSE IndexOf(list, t[k][col]) - IndexOf(list, t[k - 1][col]) \in {0, 1}

\* C6: debtors are served by descending absolute balance and creditors by
\* descending balance (amounts rounded to hundredths), equal amounts in the
\* order of the input mapping; the payers of the returned list are
\* contiguous runs in that debtor order, the receivers in that creditor order.
Ordering ==
    Matching =>
        /\ InServingOrder(debtors, balances, LAMBDA a : a < -Eps)
        /\ InServingOrder(creditors, balances, LAMBDA a : a > Eps)
        /\ ServedInOrder(txns, 1, debtors)
        /\ ServedInOrder(txns, 2, creditors)

\* two debtors of equal amount have both paid, the earlier one first
OrderingWitness ==
    /\ pc = "done"
    /\ Len(txns) >= 2
    /\ Len(debtors) >= 2
    /\ balances[IndexOf(balances, debtors[1][1])][2]
         = balances[IndexOf(balances, debtors[2][1])][2]
    /\ txns[1][1] = debtors[1][1]
    /\ txns[Len(txns)][1] = debtors[2][1]

----------------------------------------------------------------------------
(* C8 *)

\* C8 as stated: if every balance is within 0.005 of zero the returned list
\* is empty; and when all participants contributed the same amount and the
\* contributions add up to totalCost, step 3 yields all balances 0 and no
\* transactions.
NoOpCase ==
    /\ (pc = "done" /\ \A k \in 1..Len(balances) : Abs(balances[k][2]) <= Eps)
          => txns = <<>>
    /\ (/\ Computed
        /\ \A k \in 1..Len(people) : people[k].paid = people[1].paid
        /\ SumPaid(people) = total_amount)
          => /\ \A k \in 1..Len(df) : df[k].balance = 0
             /\ pc = "done" => txns = <<>>

----------------------------------------------------------------------------
(* C9 *)

\* the entry of the people list that paid totalCost while every other
\* entry paid 0
SinglePayer(p) ==
    /\ p \in 1..Len(people)
    /\ people[p].paid = total_amount
    /\ \A q \in 1..Len(people) : q # p => people[q].paid = 0

\* one transfer of amount sh to entry p from each other entry, in list order
TransfersToPayer(ps, p, sh) ==
    [k \in 1..(Len(ps) - 1) |->
        <<ps[IF k < p THEN k ELSE k + 1].name, ps[p].name, sh>>]

\* C9 as stated: for totalCost > 0 and participantCount >= 2 participants,
\* one of whom contributed totalCost and the others 0, the result is exactly
\* participantCount - 1 transactions, one from each zero-contributor to the
\* payer, each of amount fairShare, in the input order of the
\* zero-contributors.
SinglePayerScenario ==
    \A p \in 1..Len(people) :
        (/\ pc = "done"
         /\ total_amount > 0
         /\ people_count >= 2
         /\ Len(people) = people_count
         /\ SinglePayer(p))
          => /\ Len(txns) = people_count - 1
             /\ txns = TransfersToPayer(people, p, share)

----------------------------------------------------------------------------
(* C10 *)

InvalidInput ==
    \/ people_count < 1
    \/ total_amount < 0
    \/ \E k \in 1..Len(people) : people[k].paid < 0

BalanceFormula ==
    Computed =>
        /\ share % Cent = 0
        /\ 2 * Abs(people_count * share - total_amount) <= people_count * Cent
        /\ Len(df) = Len(people)
        /\ \A k \in 1..Len(df) :
              /\ df[k].share = share
              /\ df[k].paid = people[k].paid
              /\ df[k].balance = df[k].paid - df[k].share
              /\ df[k].balance % Cent = 0

\* a cost that does not divide evenly has been shared among three people
\* with different contributions
BalanceFormulaWitness ==
    /\ Computed
    /\ Len(df) = 3
    /\ people_count = 3
    /\ people_count * share # total_amount
    /\ df[1].balance > 0
    /\ df[2].balance < 0
    /\ df[1].paid # df[3].paid

(***************************************************************************)
(* C12  One balance per participant, in order                              *)
(***************************************************************************)

\* C12: the balances handed to the matcher hold exactly one entry for each
\* entry of the people list, in the order of the list, carrying that
\* entry's name and balance; no entry is dropped or merged.
OneBalancePerParticipant ==
    Computed =>
        /\ Len(balances) = Len(people)
        /\ \A k \in 1..Len(people) :
              balances[k] = <<people[k].name, df[k].balance>>

(***************************************************************************)
(* C13  Unique, non-empty names                                            *)
(***************************************************************************)

\* C13: whenever the settlement is computed, every entry of the people
\* list has a non-empty name and no two entries have the same name.
UniqueNonEmptyNames ==
    Computed =>
        /\ \A k \in 1..Len(people) : people[k].name # ""
        /\ \A k, l \in 1..Len(people) :
              k # l => people[k].name # people[l].name

(***************************************************************************)
(* C14  The matcher never rejects; leftovers are silent                    *)
(***************************************************************************)

\* the amount an entry of value v enters the creditor / debtor list with
CreditAmount(v) == IF v > Eps THEN Round2(v) ELSE 0
DebitAmount(v) == IF v < -Eps THEN Round2(-v) ELSE 0
TotalCredit(b) == SumSeq([k \in 1..Len(b) |-> CreditAmount(b[k][2])])
TotalDebit(b) == SumSeq([k \in 1..Len(b) |-> DebitAmount(b[k][2])])
TotalMoved(t) == SumSeq([k \in 1..Len(t) |-> t[k][3]])

\* C14: for every balances map, empty or not cancelling included, the
\* matcher always has a next step until it returns; at the return the
\* transaction amounts add up to the smaller of the total creditor amount
\* and the total debtor amount, and every participant of the smaller side
\* has paid (received) exactly his amount.  What is left on the larger
\* side appears nowhere in the result.
LeftoversSilent ==
    /\ pc \in {"call", "loop"} => ENABLED NextMatch
    /\ pc = "done" =>
          LET C == TotalCredit(balances)
              D == TotalDebit(balances)
          IN  /\ TotalMoved(txns) = Min(C, D)
              /\ D <= C =>
                    \A k \in 1..Len(balances) :
                        PaidBy(balances[k][1], txns) = DebitAmount(balances[k][2])
              /\ C <= D =>
                    \A k \in 1..Len(balances) :
                        ReceivedBy(balances[k][1], txns) = CreditAmount(balances[k][2])

\* the matcher has returned on a map whose two sides differ, after at least
\* two transactions, and a creditor is left with part of his amount
LeftoversSilentWitness ==
    /\ pc = "done"
    /\ TotalCredit(balances) > TotalDebit(balances)
    /\ Len(txns) >= 2
    /\ \E k \in 1..Len(balances) :
          /\ ReceivedBy(balances[k][1], txns) > 0
          /\ ReceivedBy(balances[k][1], txns) < CreditAmount(balances[k][2])

\* the matcher has returned on the empty map
LeftoversSilentEmptyWitness == pc = "done" /\ balances = <<>> /\ txns = <<>>

(***************************************************************************)
(* C15  No mutation of caller data                                         *)
(***************************************************************************)

\* C15: no step of settle_balances changes the balances map it was given
\* (keys, values, order), and no step of step 3, the matcher included,
\* changes the people list (names and contributions).
NoMutation ==
    [][/\ pc \in {"call", "loop"} => balances' = balances
       /\ pc \in {"step3", "call", "loop"} => people' = people]_vars

\* the matcher has returned after overwriting an entry of its own debtor
\* list with a remainder, and the caller's map still holds, in order, the
\* balance computed for each entry of the people list
NoMutationWitness ==
    /\ pc = "done"
    /\ Len(txns) >= 2
    /\ \E p \in 1..Len(debtors), k \in 1..Len(balances) :
          debtors[p][1] = balances[k][1] /\ debtors[p][2] # -balances[k][2]
    /\ Len(balances) = Len(people)
    /\ \A k \in 1..Len(people) :
          balances[k] = <<people[k].name, people[k].paid - share>>
    /\ \E k \in 1..Len(balances) - 1 : balances[k][2] < balances[k + 1][2]

(***************************************************************************)
(* C16  Cursor protocol                                                    *)
(***************************************************************************)

\* C16: every iteration of the matching loop appends exactly one
\* transaction, from the current debtor to the current creditor, of the
\* smaller of their two remaining amounts, and takes it off both; the
\* debtor cursor moves on exactly when the debtor's remainder is then
\* within 0.005, the creditor cursor exactly when the creditor's is; at
\* least one cursor moves, both when the two amounts were equal; and no
\* step of the loop moves a cursor backwards.
CursorProtocol ==
    [][/\ (pc = "loop" /\ pc' = "loop") =>
            LET d == debtors[i + 1][2]
                c == creditors[j + 1][2]
                pay == IF d < c THEN d ELSE c
            IN  /\ Len(txns') = Len(txns) + 1
                /\ SubSeq(txns', 1, Len(txns)) = txns
                /\ txns'[Len(txns')] = <<debtors[i + 1][1], creditors[j + 1][1], pay>>
                /\ i' = (IF d - pay <= Eps THEN i + 1 ELSE i)
                /\ j' = (IF c - pay <= Eps THEN j + 1 ELSE j)
                /\ i' = i => debtors'[i + 1] = <<debtors[i + 1][1], d - pay>>
                /\ j' = j => creditors'[j + 1] = <<creditors[j + 1][1], c - pay>>
                /\ i' > i \/ j' > j
                /\ d = c => (i' = i + 1 /\ j' = j + 1)
       /\ pc = "loop" => (i' >= i /\ j' >= j)]_vars

\* one iteration on two equal amounts has moved both cursors, and a
\* participant is left unmatched
CursorProtocolWitness ==
    /\ pc = "loop"
    /\ Len(txns) = 1
    /\ i = 1
    /\ j = 1
    /\ Len(debtors) + Len(creditors) = 3

\* one iteration has moved the creditor cursor only and left the debtor
\* with a remainder
CursorProtocolPartialWitness ==
    /\ pc = "loop"
    /\ Len(txns) = 1
    /\ i = 0
    /\ j = 1
    /\ debtors[1][2] = 10

(***************************************************************************)
(* C17  Partition                                                          *)
(***************************************************************************)

\* C17: in every transaction the payer is a participant whose input
\* balance is below -0.005 and the receiver one whose input balance is
\* above 0.005, so the two differ; a participant whose balance is within
\* 0.005 of zero is payer or receiver of no transaction.
PartitionRespected ==
    Matching =>
        /\ \A t \in 1..Len(txns) :
              /\ \E k \in 1..Len(balances) :
                    balances[k][1] = txns[t][1] /\ balances[k][2] < -Eps
              /\ \E k \in 1..Len(balances) :
                    balances[k][1] = txns[t][2] /\ balances[k][2] > Eps
              /\ txns[t][1] # txns[t][2]
        /\ \A k \in 1..Len(balances) :
              Abs(balances[k][2]) <= Eps =>
                  \A t \in 1..Len(txns) :
                      txns[t][1] # balances[k][1] /\ txns[t][2] # balances[k][1]

\* the matcher has returned a transaction on a map that also holds a
\* participant exactly 0.005 in debt, who is in no transaction
PartitionRespectedWitness ==
    /\ pc = "done"
    /\ Len(txns) >= 1
    /\ \E k \in 1..Len(balances) :
          /\ balances[k][2] = -Eps
          /\ PaidBy(balances[k][1], txns) = 0

(***************************************************************************)
(* C18  Participant count consistency                                      *)
(***************************************************************************)

\* C18: whenever step 3 has computed, the count n the cost was divided by
\* equals the number of entries of the people list.
CountMatchesPeople == Computed => CountUsed(people_count) = Len(people)

(***************************************************************************)
(* C19  No over-payment                                                    *)
(***************************************************************************)

----------------------------------------------------------------------------
(***************************************************************************)
(* Water Intake Tracker (src/day_6/Water_intake_tracker.py)                *)
(*                                                                         *)
(* A date is a day number; day 1 is 2024-12-30, so that the days explored  *)
(* cross a month and a year.  The data file holds text: a date is written  *)
(* by isoformat() as <<year, month, day>> (compared field by field, which  *)
(* is the order of the ISO strings) and an amount by str(int(m)) as its    *)
(* sequence of decimal digits.  A row in memory is <<date, ml>>.  The      *)
(* feedback message is set and cleared within one script run and is left   *)
(* out.                                                                    *)
(***************************************************************************)

\* last day number reached by the clock
MaxDay == 3
\* most rows the data file is let grow to
MaxRows == 4

\* lines 206-216: the four quick-add buttons
QuickAmounts == {250, 500, 1000, 300}
\* line 223: number_input with min_value = 1
ManualAmounts == {1}

\* d.isoformat()
IsoFormat(d) == IF d <= 2 THEN <<2024, 12, 29 + d>> ELSE <<2025, 1, d - 2>>
\* datetime.strptime(text, "%Y-%m-%d").date()
StrpDate(text) == IF text[1] = 2024 THEN text[3] - 29 ELSE text[3] + 2

\* str(int(m)) for m >= 0: the decimal digits
RECURSIVE Str(_)
Str(m) == IF m < 10 THEN <<m>> ELSE Append(Str(m \div 10), m % 10)
\* int(text)
RECURSIVE IntOf(_)
IntOf(text) ==
    IF Len(text) = 1 THEN text[1]
    ELSE 10 * IntOf(SubSeq(text, 1, Len(text) - 1)) + text[Len(text)]

\* line 45: key=lambda x: (x[0], x[1]), tuples compared field by field
KeyLeqByDate(a, b) == a[1] <= b[1]
KeyLeq(a, b) == a[1] < b[1] \/ (a[1] = b[1] /\ a[2] <= b[2])

\* line 45: sorted() is stable; insertion after the rows that are not larger
RECURSIVE InsertRow(_, _)
InsertRow(sorted, r) ==
    IF sorted = <<>> THEN <<r>>
    ELSE IF KeyLeq(Head(sorted), r)
         THEN <<Head(sorted)>> \o InsertRow(Tail(sorted), r)
         ELSE <<r>> \o sorted

RECURSIVE SortRowsFrom(_, _)
SortRowsFrom(rows, acc) ==
    IF rows = <<>> THEN acc
    ELSE SortRowsFrom(Tail(rows), InsertRow(acc, Head(rows)))

SortRows(rows) == SortRowsFrom(rows, <<>>)

\* lines 23-41: read_data_rows; every row the program writes parses, so the
\* skipping of malformed rows never applies to them
ReadDataRows(f) ==
    IF ~f.exists THEN <<>>
    ELSE [k \in 1..Len(f.rows) |-> <<StrpDate(f.rows[k][1]), IntOf(f.rows[k][2])>>]

\* lines 43-50: save_data_rows; the file content after the call
SaveDataRows(rows) ==
    LET rows_sorted == SortRows(rows)
    IN  [exists |-> TRUE,
         rows |-> [k \in 1..Len(rows_sorted) |->
                      <<IsoFormat(rows_sorted[k][1]), Str(rows_sorted[k][2])>>]]

\* lines 52-55: append_entry
AppendEntry(entry_date, ml) ==
    data_file' = SaveDataRows(Append(ReadDataRows(data_file), <<entry_date, ml>>))

\* a clear that keeps today's rows and drops the others
ClearTodayEntriesInverted ==
    LET rows == ReadDataRows(data_file)
    IN  data_file' = SaveDataRows(SelectSeq(rows, LAMBDA r : r[1] = today))

\* lines 57-61: clear_today_entries
ClearTodayEntries ==
    LET rows == ReadDataRows(data_file)
    IN  data_file' = SaveDataRows(SelectSeq(rows, LAMBDA r : r[1] # today))

\* lines 206-217: a quick-add button
QuickAdd ==
    /\ Len(data_file.rows) < MaxRows
    /\ \E ml \in QuickAmounts : AppendEntry(today, ml) /\ appended' = appended + ml
    /\ UNCHANGED <<today, splitter, weekly, calculator>>

\* lines 221-228: the form's Add button
ManualAdd ==
    /\ Len(data_file.rows) < MaxRows
    /\ \E ml \in ManualAmounts : AppendEntry(today, ml) /\ appended' = appended + ml
    /\ UNCHANGED <<today, splitter, weekly, calculator>>

\* lines 229-231: the form's "Clear today's entries" button
ClearTodayForm ==
    /\ ClearTodayEntries
    /\ appended' = 0
    /\ UNCHANGED <<today, splitter, weekly, calculator>>

\* lines 272-274: the "Reset today" button
ResetToday ==
    /\ ClearTodayEntries
    /\ appended' = 0
    /\ UNCHANGED <<today, splitter, weekly, calculator>>

\* lines 63-68 and 174-176: clear_all_history; unlink() removes the file, and
\* if it raises, an empty log is written instead
ClearAllHistory ==
    /\ IF data_file.exists
       THEN data_file' \in {NoFile, SaveDataRows(<<>>)}
       ELSE data_file' = data_file
    /\ appended' = 0
    /\ UNCHANGED <<today, splitter, weekly, calculator>>

\* date.today() moves on to the next day between two script runs
NextDay ==
    /\ today < MaxDay
    /\ today' = today + 1
    /\ appended' = 0
    /\ UNCHANGED <<data_file, splitter, weekly, calculator>>

\* lines 71-75: get_today_total
GetTodayTotal(rows) ==
    SumSeq([k \in 1..Len(rows) |-> IF rows[k][1] = today THEN rows[k][2] ELSE 0])

\* the script run's rows_all = read_data_rows() with only the append and
\* clear-today handlers and the clock
NextWaterLog ==
    \/ QuickAdd
    \/ ManualAdd
    \/ ClearTodayForm
    \/ ResetToday
    \/ NextDay

SpecWaterLog == Init /\ [][NextWaterLog]_vars

NextWater ==
    \/ QuickAdd
    \/ ManualAdd
    \/ ClearTodayForm
    \/ ResetToday
    \/ ClearAllHistory
    \/ NextDay

\* no data file; the expense splitter stays in its initial state
SpecWater == Init /\ [][NextWater]_vars

(***************************************************************************)
(* C20  Water log ordering                                                 *)
(***************************************************************************)

\* the ISO date a is not later than the ISO date b
IsoLeq(a, b) ==
    \/ a[1] < b[1]
    \/ a[1] = b[1] /\ a[2] < b[2]
    \/ a[1] = b[1] /\ a[2] = b[2] /\ a[3] <= b[3]

\* C20: after any sequence of appends and clears starting from no data
\* file, the rows of the data file are in ascending order of date, and rows
\* of one date are in ascending order of ml.
WaterLogSorted ==
    \A k \in 1..Len(data_file.rows) - 1 :
        LET a == data_file.rows[k]
            b == data_file.rows[k + 1]
        IN  /\ IsoLeq(a[1], b[1])
            /\ a[1] = b[1] => IntOf(a[2]) <= IntOf(b[2])

\* the file holds rows of 2024-12-31 and of 2025-01-01, among them 1000 ml
\* before 250 ml of a later date and two different amounts of one date
WaterLogSortedWitness ==
    /\ data_file.exists
    /\ Len(data_file.rows) = MaxRows
    /\ \E k \in 1..Len(data_file.rows) - 1 :
          /\ data_file.rows[k][1] = <<2024, 12, 31>>
          /\ data_file.rows[k][2] = <<1, 0, 0, 0>>
          /\ data_file.rows[k + 1][1] = <<2025, 1, 1>>
          /\ data_file.rows[k + 1][2] = <<2, 5, 0>>
    /\ \E k \in 1..Len(data_file.rows) - 1 :
          /\ data_file.rows[k][1] = data_file.rows[k + 1][1]
          /\ data_file.rows[k][2] # data_file.rows[k + 1][2]

(***************************************************************************)
(* C21  Water log frame                                                    *)
(***************************************************************************)

\* number of occurrences of the row r in rows
CountRow(rows, r) == Cardinality({k \in 1..Len(rows) : rows[k] = r})
RowsOf(rows) == {rows[k] : k \in 1..Len(rows)}

\* a clear-today step removes every row dated today and keeps the number of
\* occurrences of every other row; an append step adds one row (today, ml)
\* and keeps every other row
WaterLogFrameStep ==
    LET old == ReadDataRows(data_file)
        new == ReadDataRows(data_file')
        all == RowsOf(old) \cup RowsOf(new)
    IN  /\ (ClearTodayForm \/ ResetToday) =>
              \A r \in all :
                  CountRow(new, r) = IF r[1] = today THEN 0 ELSE CountRow(old, r)
        /\ (QuickAdd \/ ManualAdd) =>
              \E ml \in QuickAmounts \cup ManualAmounts :
                  /\ Len(new) = Len(old) + 1
                  /\ \A r \in all :
                        CountRow(new, r) =
                            CountRow(old, r) + (IF r = <<today, ml>> THEN 1 ELSE 0)

\* get_today_total equals what was appended for today since the last clear
TodayTotalIsAppended == GetTodayTotal(ReadDataRows(data_file)) = appended

\* C21: clear_today_entries removes exactly the rows dated today and leaves
\* the rows of every other date as they were, append_entry adds exactly one
\* row and leaves the stored rows in the file, and so get_today_total is
\* always the sum of the amounts appended for today since the last
\* clear_today_entries.
WaterLogFrame == []TodayTotalIsAppended /\ [][WaterLogFrameStep]_vars

\* today's rows were cleared and 500 ml and 250 ml appended after that,
\* while the file still holds a row of an earlier day
WaterLogFrameWitness ==
    /\ today = 2
    /\ appended = 750
    /\ GetTodayTotal(ReadDataRows(data_file)) = 750
    /\ Len(data_file.rows) = 3
    /\ data_file.rows[1][1] = <<2024, 12, 30>>

----------------------------------------------------------------------------
(***************************************************************************)
(* get_week_totals (src/day_6/Water_intake_tracker.py, lines 77-89) as a   *)
(* function of its two arguments; dates are day numbers, so that           *)
(* reference - timedelta(days=i) is reference - i.                         *)
(***************************************************************************)

\* longest list of rows handed to get_week_totals
MaxWeekRows == 3

\* reference dates, and row dates before, inside and after their windows
WeekReferences == {8, 9}
WeekDates == {1, 2, 5, 8, 9}
WeekAmounts == {250, 500}
WeekRowLists ==
    UNION {[1..n -> WeekDates \X WeekAmounts] : n \in 0..MaxWeekRows}

\* totals.get(d, 0)
DictGet(d, key, default) ==
    IF \E p \in 1..Len(d) : d[p][1] = key
    THEN d[CHOOSE p \in 1..Len(d) : d[p][1] = key][2]
    ELSE default

\* lines 82-85: totals.setdefault(d, 0); totals[d] += int(m)
RECURSIVE TotalsFrom(_, _)
TotalsFrom(rows, totals) ==
    IF rows = <<>> THEN totals
    ELSE LET d == Head(rows)[1]
             m == Head(rows)[2]
         IN  TotalsFrom(Tail(rows), DictPut(totals, d, DictGet(totals, d, 0) + m))

\* line 86: [reference - timedelta(days=i) for i in range(6, -1, -1)]
WeekDaysBeforeReference(reference) == [k \in 1..7 |-> reference - (8 - k)]
WeekDays(reference) == [k \in 1..7 |-> reference - (7 - k)]

\* lines 77-89: get_week_totals
GetWeekTotals(reference, rows) ==
    LET totals == TotalsFrom(rows, <<>>)
        days == WeekDays(reference)
    IN  [k \in 1..Len(days) |-> <<days[k], DictGet(totals, days[k], 0)>>]

\* the expense splitter before its first run
SplitterStart ==
    /\ step = 1
    /\ total_amount = 0
    /\ people_count = 1
    /\ people = <<>>
    /\ share = 0
    /\ df = <<>>
    /\ balances = <<>>
    /\ creditors = <<>>
    /\ debtors = <<>>
    /\ i = 0
    /\ j = 0
    /\ txns = <<>>
    /\ pc = "wait"

\* a call of get_week_totals(reference, rows)
GetWeekTotalsCall ==
    /\ week_pc = "call"
    /\ week' = GetWeekTotals(week_reference, week_rows)
    /\ week_pc' = "done"
    /\ UNCHANGED <<week_reference, week_rows, splitter, water, calculator>>

InitWeek ==
    /\ SplitterStart
    /\ NoWaterLog
    /\ CalculatorStart
    /\ week_reference \in WeekReferences
    /\ week_rows \in WeekRowLists
    /\ week = <<>>
    /\ week_pc = "call"

SpecWeek == InitWeek /\ [][GetWeekTotalsCall]_vars

(***************************************************************************)
(* C22  Weekly totals                                                      *)
(***************************************************************************)

\* sum of ml over the rows dated d
AmountOn(rows, d) ==
    SumSeq([n \in 1..Len(rows) |-> IF rows[n][1] = d THEN rows[n][2] ELSE 0])

\* C22: for every reference date and list of rows, get_week_totals returns
\* exactly 7 pairs, for the dates reference - 6 .. reference in ascending
\* order, each with the sum of ml of the rows of that date (0 if none);
\* rows dated outside the window count in no pair.
WeeklyTotals ==
    week_pc = "done" =>
        /\ Len(week) = 7
        /\ \A k \in 1..Len(week) :
              /\ week[k][1] = week_reference - 7 + k
              /\ week[k][2] = AmountOn(week_rows, week[k][1])
        /\ SumSeq([k \in 1..Len(week) |-> week[k][2]]) =
              SumSeq([n \in 1..Len(week_rows) |->
                        IF /\ week_rows[n][1] >= week_reference - 6
                           /\ week_rows[n][1] <= week_reference
                        THEN week_rows[n][2] ELSE 0])

\* the function has returned on rows that hold two amounts of the reference
\* date, not adjacent, and a row of the day before the window
WeeklyTotalsWitness ==
    /\ week_pc = "done"
    /\ week_reference = 8
    /\ week_rows = <<<<8, 250>>, <<1, 500>>, <<8, 500>>>>
    /\ week[7] = <<8, 750>>
    /\ week[1] = <<2, 0>>

----------------------------------------------------------------------------
(***************************************************************************)
(* Calculator (src/day_3/calculator/app.py)                                *)
(*                                                                         *)
(* The display is a sequence of one-character strings.  The keys explored  *)
(* are 1, 0 and the division key; the sign key, backspace, C and = are     *)
(* actions of their own.  safe_eval is modelled on the expressions these   *)
(* keys can build: an optional leading minus and number literals separated *)
(* by division signs; a value is a fraction <<n, d>> with d > 0.           *)
(***************************************************************************)

\* most key characters (digits, point, division sign) add_text lets the
\* display grow to
MaxDisplay == 3

\* lines 96-101: keypad keys explored
Keys == {"1", "0", "÷"}

\* lines 191 and 193: the two error texts
ErrorText == <<"E", "r", "r", "o", "r">>
DivideByZeroText ==
    ErrorText \o <<":", " ", "d", "i", "v", "i", "d", "e", " ", "b", "y",
                   " ", "z", "e", "r", "o">>

DigitChars == <<"0", "1", "2", "3", "4", "5", "6", "7", "8", "9">>
IsDigit(c) == \E k \in 1..10 : DigitChars[k] = c
DigitVal(c) == (CHOOSE k \in 1..10 : DigitChars[k] = c) - 1
\* str(n) for n >= 0, as characters
StrChars(n) == [k \in 1..Len(Str(n)) |-> DigitChars[Str(n)[k] + 1]]

\* number of key characters in the display
KeyChars(s) ==
    Cardinality({k \in 1..Len(s) : IsDigit(s[k]) \/ s[k] \in {".", "÷"}})

\* the pieces of s between division signs
RECURSIVE SplitOn(_, _, _)
SplitOn(s, sep, piece) ==
    IF s = <<>> THEN <<piece>>
    ELSE IF Head(s) = sep THEN <<piece>> \o SplitOn(Tail(s), sep, <<>>)
    ELSE SplitOn(Tail(s), sep, Append(piece, Head(s)))

\* ast.parse: a decimal integer literal has no leading zero unless it is all
\* zeros; a float literal has one point and a digit on at least one side
IsIntLiteral(t) ==
    /\ t # <<>>
    /\ \A k \in 1..Len(t) : IsDigit(t[k])
    /\ (Len(t) > 1 /\ t[1] = "0") => \A k \in 1..Len(t) : t[k] = "0"
IsFloatLiteral(t) ==
    /\ Len(t) >= 2
    /\ Cardinality({k \in 1..Len(t) : t[k] = "."}) = 1
    /\ \A k \in 1..Len(t) : IsDigit(t[k]) \/ t[k] = "."
IsLiteral(t) == IsIntLiteral(t) \/ IsFloatLiteral(t)

RECURSIVE DigitsValue(_, _)
DigitsValue(t, acc) ==
    IF t = <<>> THEN acc ELSE DigitsValue(Tail(t), 10 * acc + DigitVal(Head(t)))

RECURSIVE Pow10(_)
Pow10(k) == IF k = 0 THEN 1 ELSE 10 * Pow10(k - 1)

\* the value of a literal as a fraction
LiteralValue(t) ==
    IF IsIntLiteral(t) THEN <<DigitsValue(t, 0), 1>>
    ELSE LET p == CHOOSE k \in 1..Len(t) : t[k] = "."
         IN  <<DigitsValue(SubSeq(t, 1, p - 1) \o SubSeq(t, p + 1, Len(t)), 0),
               Pow10(Len(t) - p)>>

\* a float literal standing alone: <<negative, whole part, decimal digits>>
FloatDigits(neg, t) ==
    LET p == CHOOSE k \in 1..Len(t) : t[k] = "."
    IN  <<neg, DigitsValue(SubSeq(t, 1, p - 1), 0),
          [k \in 1..Len(t) - p |-> DigitVal(t[p + k])]>>

\* lines 38-44: BinOp with ast.Div, left to right; a zero divisor raises
\* ZeroDivisionError
RECURSIVE DivideFrom(_, _)
DivideFrom(acc, pieces) ==
    IF pieces = <<>> THEN [raised |-> FALSE, value |-> acc]
    ELSE LET v == LiteralValue(Head(pieces))
         IN  IF v[1] = 0 THEN [raised |-> TRUE, value |-> acc]
             ELSE DivideFrom(<<acc[1] * v[2], acc[2] * v[1]>>, Tail(pieces))

\* lines 22-52: safe_eval on an optional minus and literals separated by
\* division signs; anything else is a ValueError
SafeEval(expr) ==
    LET neg == expr # <<>> /\ Head(expr) = "-"
        body == IF neg THEN Tail(expr) ELSE expr
        pieces == SplitOn(body, "÷", <<>>)
    IN  IF \E k \in 1..Len(pieces) : ~IsLiteral(pieces[k])
        THEN [kind |-> "ValueError", value |-> <<0, 1>>]
        ELSE IF Len(pieces) = 1 /\ IsFloatLiteral(pieces[1])
        THEN [kind |-> "float literal", value |-> FloatDigits(neg, pieces[1])]
        ELSE LET first == LiteralValue(pieces[1])
                 start == IF neg THEN <<-first[1], first[2]>> ELSE first
                 q == DivideFrom(start, Tail(pieces))
             IN  IF q.raised THEN [kind |-> "ZeroDivisionError", value |-> <<0, 1>>]
                 ELSE IF Len(pieces) = 1 /\ IsIntLiteral(pieces[1])
                      THEN [kind |-> "int", value |-> q.value]
                      ELSE [kind |-> "float", value |-> q.value]

\* k decimal digits of r / d, for 0 <= r < d
RECURSIVE FracDigits(_, _, _)
FracDigits(r, d, k) ==
    IF k = 0 THEN <<>>
    ELSE <<(10 * r) \div d>> \o FracDigits((10 * r) % d, d, k - 1)

\* a digit sequence plus one; the first element of the result is the carry
RECURSIVE IncDigits(_)
IncDigits(ds) ==
    IF ds = <<>> THEN <<1>>
    ELSE LET last == ds[Len(ds)]
             front == SubSeq(ds, 1, Len(ds) - 1)
         IN  IF last < 9 THEN <<0>> \o front \o <<last + 1>>
             ELSE LET inc == IncDigits(front)
                  IN  inc \o <<0>>

\* .rstrip('0')
RECURSIVE StripZeros(_)
StripZeros(ds) ==
    IF ds # <<>> /\ ds[Len(ds)] = 0 THEN StripZeros(SubSeq(ds, 1, Len(ds) - 1))
    ELSE ds

\* str(n) for an integer n
IntText(n) == IF n < 0 THEN <<"-">> \o StrChars(-n) ELSE StrChars(n)

\* line 186: f"{result:.10f}".rstrip('0').rstrip('.') of the number with
\* the given sign, whole part and decimal digits
FixedFromDigits(neg, w, digits) ==
    LET eleven == [k \in 1..11 |-> IF k <= Len(digits) THEN digits[k] ELSE 0]
        ten == SubSeq(eleven, 1, 10)
        inc == IF eleven[11] >= 5 THEN IncDigits(ten) ELSE <<0>> \o ten
        whole == w + inc[1]
        frac == StripZeros(Tail(inc))
        sign == IF neg THEN <<"-">> ELSE <<>>
    IN  sign \o StrChars(whole) \o
        (IF frac = <<>> THEN <<>>
         ELSE <<".">> \o [k \in 1..Len(frac) |-> DigitChars[frac[k] + 1]])

FixedText(v) ==
    LET a == Abs(v[1])
        d == v[2]
    IN  FixedFromDigits(v[1] < 0, a \div d, FracDigits(a % d, d, 11))

\* a fraction with a positive denominator
Normal(v) == IF v[2] < 0 THEN <<-v[1], -v[2]>> ELSE v

\* lines 180-188: result_text
ResultText(res) ==
    IF res.kind = "float literal"
    THEN LET v == res.value
         IN  IF \A k \in 1..Len(v[3]) : v[3][k] = 0
             THEN IntText(IF v[1] THEN -v[2] ELSE v[2])
             ELSE FixedFromDigits(v[1], v[2], v[3])
    ELSE LET v == Normal(res.value)
         IN  IF res.kind = "int" THEN IntText(v[1])
             ELSE IF v[1] % v[2] = 0 THEN IntText(v[1] \div v[2])
             ELSE FixedText(v)

\* line 143: the display is cut to 100 characters
DisplayLimit == 100

\* lines 124-125: clear_display
ClearDisplay ==
    /\ display_var' = <<"0">>
    /\ UNCHANGED <<splitter, water, weekly>>

\* lines 127-136: backspace
Backspace ==
    /\ LET s == display_var
           cut == SubSeq(s, 1, Len(s) - 1)
       IN  IF s \in {ErrorText, <<"0">>} THEN display_var' = <<"0">>
           ELSE IF cut = <<>> \/ cut = <<"-">> THEN display_var' = <<"0">>
           ELSE display_var' = cut
    /\ UNCHANGED <<splitter, water, weekly>>

\* lines 138-145: add_text(txt)
AddText(txt) ==
    LET s == IF display_var = <<"0">> \/ display_var = ErrorText
             THEN <<>> ELSE display_var
        t == s \o txt
    IN  display_var' = IF Len(t) > DisplayLimit THEN SubSeq(t, 1, DisplayLimit) ELSE t

\* lines 96-101 and 156-169: a keypad button or a key of the keyboard
PressKey ==
    /\ KeyChars(display_var) < MaxDisplay
    /\ \E ch \in Keys : AddText(<<ch>>)
    /\ UNCHANGED <<splitter, water, weekly>>

\* lines 147-154: toggle_sign
ToggleSign ==
    /\ LET s == display_var
       IN  IF s \in {<<"0">>, ErrorText} THEN display_var' = s
           ELSE IF s # <<>> /\ Head(s) = "-" THEN display_var' = Tail(s)
           ELSE display_var' = <<"-">> \o s
    /\ UNCHANGED <<splitter, water, weekly>>

\* lines 176-193: calculate
Calculate ==
    /\ LET expr == display_var
           res == SafeEval(expr)
       IN  IF expr \in {<<"0">>, <<>>} THEN display_var' = expr
           ELSE IF res.kind = "ZeroDivisionError" THEN display_var' = DivideByZeroText
           ELSE IF res.kind = "ValueError" THEN display_var' = ErrorText
           ELSE display_var' = ResultText(res)
    /\ UNCHANGED <<splitter, water, weekly>>

NextCalculator ==
    \/ ClearDisplay
    \/ Backspace
    \/ PressKey
    \/ ToggleSign
    \/ Calculate

\* the display starts at "0"; the other programs stay as they start
SpecCalculator == Init /\ [][NextCalculator]_vars

(***************************************************************************)
(* C23  Calculator error recovery                                          *)
(***************************************************************************)

\* s starts with the text e and goes on with key characters only
TypedAfter(e, s) ==
    /\ Len(s) > Len(e)
    /\ SubSeq(s, 1, Len(e)) = e
    /\ \A k \in Len(e) + 1..Len(s) : s[k] \in Keys

\* C23: no reachable display consists of an error text, the generic one or
\* the divide-by-zero one, followed by further typed characters.
ErrorRecovery ==
    /\ ~TypedAfter(ErrorText, display_var)
    /\ ~TypedAfter(DivideByZeroText, display_var)

====
